---------------------------- MODULE Spec2Model ----------------------------
(***************************************************************************)
(* Model of the mix optimizer of ydj-music-studio (src/mixer/mixer.py,     *)
(* src/mixer/camelot.py): the Camelot key algebra, the precomputed         *)
(* transition tables, the simulated-annealing attempt with delta costs     *)
(* and the outer attempt loop of the Python fallback path (Spec); the       *)
(* start-up and track loading of the mixer driver (SpecDriver); calls of   *)
(* its module-level functions and tables (SpecCalls); and the main         *)
(* functions of library-management/resolve_tagger.py (SpecTagger) and      *)
(* library-management/update_year.py (SpecYear).                           *)
(*                                                                         *)
(* Costs are multiples of 0.5 in the source (floats that are exact dyadic  *)
(* rationals of small magnitude, so float arithmetic on them is exact).    *)
(* The model counts every cost in half points: a source cost c is the      *)
(* integer 2*c here (Unit = 1.0).  BPM differences are compared doubled    *)
(* against the doubled threshold.                                          *)
(***************************************************************************)
EXTENDS Integers, Sequences, FiniteSets, TLC

(***************************************************************************)
(* Strings are sequences of one-character strings, so that parsing,        *)
(* stripping and formatting are computed and not assumed.                  *)
(***************************************************************************)
Digits == <<"0", "1", "2", "3", "4", "5", "6", "7", "8", "9">>

DigitValue(c) == (CHOOSE d \in 1..Len(Digits) : Digits[d] = c) - 1

RECURSIVE int(_)
\* Python int() of a non-empty string of decimal digits.
int(s) ==
    IF Len(s) = 1 THEN DigitValue(s[1])
    ELSE 10 * int(SubSeq(s, 1, Len(s) - 1)) + DigitValue(s[Len(s)])

\* Python str() of an integer in 0..99 (f"{num}").
str(num) ==
    IF num < 10 THEN <<Digits[num + 1]>>
    ELSE <<Digits[(num \div 10) + 1], Digits[(num % 10) + 1]>>

RECURSIVE lstrip0(_)
\* s.lstrip("0")
lstrip0(s) ==
    IF Len(s) > 0 /\ s[1] = "0" THEN lstrip0(Tail(s)) ELSE s

\* f itself, tabulated: the value is built once, as the source builds its
\* dicts and lists at import, and not recomputed at each lookup
Table(f) == f @@ <<>>

\* F(v) with v evaluated once
Let(v, F(_)) == CHOOSE r \in {F(x) : x \in {v}} : TRUE

abs(x) == IF x < 0 THEN -x ELSE x

min(x, y) == IF x <= y THEN x ELSE y

(***************************************************************************)
(* Global parameters (mixer.py 41-64).                                     *)
(***************************************************************************)
\* 1.0 cost point, in the model's half points
Unit == 2

\* 4.5 BPM, doubled; compared against doubled BPM differences
TEMPO_THRESHOLD == 9
TEMPO_PENALTY == 5 * Unit
TEMPO_BREAK_FACTOR == 2
TEMPO_COST_WEIGHT == 3

EXACT_MATCH_COST == 0 * Unit
\* 0.5
SAME_KEY_SCALE_CHANGE_COST == Unit \div 2
\* 0.5
KEY_DIFF_ONE_COST == Unit \div 2
KEY_DIFF_ONE_SCALE_CHANGE_COST == 5 * Unit
NON_HARMONIC_COST == 5 * Unit

SHIFT_PENALTY == 1 * Unit
SHIFT_WEIGHT == 1

OPTIMIZER_TIME_LIMIT_MINUTES == 5
MULTI_SWAP_FACTOR == 2

\* 410000 in the source; the model runs attempts of this many iterations
TOTAL_ITERATIONS == 8

(***************************************************************************)
(* camelot.py                                                              *)
(***************************************************************************)
\* parse_camelot: (int(s[:-1]), s[-1])
parse_camelot(camelot_str) ==
    <<int(SubSeq(camelot_str, 1, Len(camelot_str) - 1)), camelot_str[Len(camelot_str)]>>

\* camelot_keys = [f"{num}{letter}" for num in 1..12 for letter in "AB"]
camelot_keys ==
    Table(
    [k \in 1..24 |-> str(((k - 1) \div 2) + 1) \o <<IF k % 2 = 1 THEN "A" ELSE "B">>])

CamelotKeySet == {camelot_keys[k] : k \in 1..24}

\* the pitch classes of 1A, 1B, 2A, 2B, ..., 12A, 12B in the dict's order
PitchOfKeys ==
    << 8, 11,  3,  6, 10,  1,  5,  8,  0,  3,  7, 10,
       2,  5,  9,  0,  4,  7, 11,  2,  6,  9,  1,  4 >>

camelot_to_pitch ==
    Table(
    [key \in CamelotKeySet |->
        LET k == CHOOSE j \in 1..24 : camelot_keys[j] = key
        IN  <<PitchOfKeys[k], IF key[Len(key)] = "A" THEN "minor" ELSE "major">>])

\* pitch_to_camelot = {v: k for k, v in camelot_to_pitch.items()}
pitch_to_camelot ==
    Table(
    [pm \in {camelot_to_pitch[key] : key \in CamelotKeySet} |->
        CHOOSE key \in CamelotKeySet : camelot_to_pitch[key] = pm])

\* a variant that adds the size of the shift, whatever its sign
ShiftKeyUpOnly(original_key, semitone_shift) ==
    LET key == lstrip0(original_key)
    IN  IF semitone_shift = 0 THEN key
        ELSE pitch_to_camelot[<<(camelot_to_pitch[key][1] + abs(semitone_shift)) % 12,
                                camelot_to_pitch[key][2]>>]

\* shift_camelot_key; "raise" stands for the KeyError / ValueError outcomes
shift_camelot_key(original_key, semitone_shift) ==
    LET key == lstrip0(original_key)
    IN  IF semitone_shift = 0 THEN key
        ELSE IF key \notin DOMAIN camelot_to_pitch THEN <<"raise">>
        ELSE LET pitch == camelot_to_pitch[key][1]
                 mode == camelot_to_pitch[key][2]
                 new_pitch == (pitch + semitone_shift) % 12
             IN  IF <<new_pitch, mode>> \in DOMAIN pitch_to_camelot
                 THEN pitch_to_camelot[<<new_pitch, mode>>]
                 ELSE <<"raise">>

(***************************************************************************)
(* Harmonic cost and the precomputed tables (mixer.py 82-172).             *)
(***************************************************************************)
\* a variant without the wrap-around of the key numbers (12 next to 1)
HarmonicCostWithoutWrap(key1, key2) ==
    LET p1 == parse_camelot(lstrip0(key1))
        p2 == parse_camelot(lstrip0(key2))
        diff == abs(p1[1] - p2[1])
    IN  IF p1[1] = p2[1] /\ p1[2] = p2[2] THEN EXACT_MATCH_COST
        ELSE IF p1[1] = p2[1] /\ p1[2] # p2[2] THEN SAME_KEY_SCALE_CHANGE_COST
        ELSE IF diff = 1
             THEN IF p1[2] = p2[2] THEN KEY_DIFF_ONE_COST
                  ELSE KEY_DIFF_ONE_SCALE_CHANGE_COST
        ELSE NON_HARMONIC_COST

harmonic_cost_from_keys(key1, key2) ==
    LET p1 == parse_camelot(lstrip0(key1))
        p2 == parse_camelot(lstrip0(key2))
        num1 == p1[1]
        scale1 == p1[2]
        num2 == p2[1]
        scale2 == p2[2]
        diff == min(abs(num1 - num2), 12 - abs(num1 - num2))
    IN  IF num1 = num2 /\ scale1 = scale2 THEN EXACT_MATCH_COST
        ELSE IF num1 = num2 /\ scale1 # scale2 THEN SAME_KEY_SCALE_CHANGE_COST
        ELSE IF diff = 1
             THEN IF scale1 = scale2 THEN KEY_DIFF_ONE_COST
                  ELSE KEY_DIFF_ONE_SCALE_CHANGE_COST
        ELSE NON_HARMONIC_COST

\* the least element of a non-empty set of integers
MinOf(S) == CHOOSE x \in S : \A y \in S : x <= y

\* a variant whose intermediate key is neither k1 nor k2
TransitionCostsThroughThirdKey ==
    Table([k1 \in CamelotKeySet |-> Table([k2 \in CamelotKeySet |->
        <<harmonic_cost_from_keys(k1, k2),
          MinOf({harmonic_cost_from_keys(k1, k3) + harmonic_cost_from_keys(k3, k2) :
                    k3 \in CamelotKeySet \ {k1, k2}})>>])])

\* transition_harmonic_costs[k1][k2] = (direct_cost, indirect_cost)
transition_harmonic_costs ==
    Table([k1 \in CamelotKeySet |-> Table([k2 \in CamelotKeySet |->
        <<harmonic_cost_from_keys(k1, k2),
          MinOf({harmonic_cost_from_keys(k1, k3) + harmonic_cost_from_keys(k3, k2) :
                    k3 \in CamelotKeySet})>>])])

\* KEY_TO_ID = {k: i for i, k in enumerate(camelot_keys)}   (ids 0..23)
KEY_TO_ID ==
    Table([key \in CamelotKeySet |-> (CHOOSE j \in 1..24 : camelot_keys[j] = key) - 1])

NUM_KEYS == Len(camelot_keys)

\* Python lists are 0-based: a list is a function on 0..len-1
_shift_table ==
    Table(
    [x \in 0..(NUM_KEYS * 3 - 1) |->
        KEY_TO_ID[shift_camelot_key(camelot_keys[(x \div 3) + 1], (x % 3) - 1)]])

_direct_cost_flat ==
    Table(
    [x \in 0..(NUM_KEYS * NUM_KEYS - 1) |->
        transition_harmonic_costs[camelot_keys[(x \div NUM_KEYS) + 1]][camelot_keys[(x % NUM_KEYS) + 1]][1]])

_indirect_cost_flat ==
    Table(
    [x \in 0..(NUM_KEYS * NUM_KEYS - 1) |->
        transition_harmonic_costs[camelot_keys[(x \div NUM_KEYS) + 1]][camelot_keys[(x % NUM_KEYS) + 1]][2]])

_TEMPO_BREAK_THRESHOLD == TEMPO_BREAK_FACTOR * TEMPO_THRESHOLD

(***************************************************************************)
(* Bounds of the model.                                                    *)
(***************************************************************************)
\* attempts the outer loop may launch on a pool of two tracks; a larger pool
\* is followed for one attempt (AttemptCap)
MaxAttempts == 2
\* seconds between two possible readings of the wall clock
ClockTick == 300
\* the last clock reading is MaxTicks * ClockTick seconds
MaxTicks == 2

\* a Camelot key string from its number and letter
Key(num, letter) == str(num) \o <<letter>>

\* the rows the ingestion loop has accepted: (bpm, camelot)
Pools ==
    { << <<120, Key(8, "A")>> >>,
      << <<120, Key(8, "A")>>, <<120, Key(8, "A")>> >>,
      << <<120, Key(8, "A")>>, <<200, Key(1, "B")>> >>,
      << <<120, Key(8, "A")>>, <<126, Key(3, "A")>>, <<124, Key(9, "B")>> >> }

\* Python's None
None == <<>>

\* the exceptions a run can end with
NameError == <<"NameError">>
ValueError == <<"ValueError">>
IndexError == <<"IndexError">>

\* a name that no statement has assigned yet; a bound name is <<value>>
Unbound == <<>>

\* no module-level function has been called
NoCall == [fn |-> "none", args |-> <<>>, ret |-> <<>>]

\* the settings of SHIFT_WEIGHT explored by SpecSettings
ShiftWeightSettings == {1, 2}

\* float('inf')
Inf == 1000000

VARIABLES
    mix_tracks_data,            \* list of (bpm, camelot), 0-based
    shift_weight,               \* the value of SHIFT_WEIGHT in force
    time_limit_seconds,
    pc,                         \* "outer" | "anneal" | "done"
    now,                        \* last reading of time.time() - optimizer_start
    attempt,
    global_overall_best_cost,
    global_overall_best_order,
    global_overall_best_shifts,
    attempt_results,            \* history: what each completed attempt returned and printed
    order, shifts,              \* locals of simulated_annealing_mix
    best_order, best_shifts, best_cost,
    current_cost, candidate_cost,
    master_iter, in_escape_mode, escape_counter,
    argv_minutes,               \* the first positional argument of the command line, or None
    minutes_binding,            \* the binding of OPTIMIZER_TIME_LIMIT_MINUTES in the module's globals
    args_minutes,               \* _args.minutes
    mix_input_df,               \* the rows of the "Mixer input" playlist: (BPM, Comments)
    row_pos,                    \* rows of mix_input_df the loading loop has consumed
    exception,                  \* the exception that ended the run, or None
    call,                       \* the last call of a module-level function: name, arguments, result
    args,                       \* the parsed command line of a library-management tool
    music_writes,               \* the AppleScript writes executed against the Music app, in order
    groups_file,                \* resolve_tagger: the groups JSON file on disk
    groups,                     \* resolve_tagger: the groups in memory
    group_pos,                  \* resolve_tagger: groups the main loop has gone through
    session,                    \* resolve_tagger: the counters fixed, ignored, skipped, errors
    dry_run,                    \* update_year: not args.apply
    responses,                  \* update_year: the answers given to the prompts so far
    updates,                    \* update_year: the tracks to update
    backup_file,                \* update_year: the backup file on disk, or None
    update_pos,                 \* update_year: updates the batch loop has processed
    changes_log                 \* update_year: the results of the updates

outer_vars == <<attempt, now, global_overall_best_cost, global_overall_best_order,
                global_overall_best_shifts, attempt_results>>

anneal_vars == <<order, shifts, best_order, best_shifts, best_cost, current_cost,
                 candidate_cost, master_iter, in_escape_mode, escape_counter>>

input_vars == <<mix_tracks_data, shift_weight, time_limit_seconds>>

\* the module-level state of the start-up and track loading sections
startup_vars == <<argv_minutes, minutes_binding, args_minutes, mix_input_df, row_pos>>

\* the state of the library-management tools
tool_vars == <<args, music_writes, groups_file, groups, group_pos, session,
               dry_run, responses, updates, backup_file, update_pos, changes_log>>

tagger_vars == <<groups_file, groups, group_pos, session>>

year_vars == <<dry_run, responses, updates, backup_file, update_pos, changes_log>>

\* what no step of the optimizer writes
aside_vars == <<startup_vars, call, tool_vars>>

vars == <<input_vars, pc, outer_vars, anneal_vars, aside_vars, exception>>

\* n = len(mix_tracks_data)
n == Cardinality(DOMAIN mix_tracks_data)

base_keys == [i \in DOMAIN mix_tracks_data |-> mix_tracks_data[i][2]]

bpms == [i \in DOMAIN mix_tracks_data |-> mix_tracks_data[i][1]]

base_key_ids == [i \in DOMAIN base_keys |-> KEY_TO_ID[base_keys[i]]]

\* a 1-based tuple as a Python list
List(seq) == [i \in 0..(Len(seq) - 1) |-> seq[i + 1]]

\* the empty list; also the value of a local that is out of scope
Empty == <<>>

RECURSIVE SumOver(_, _)
\* sum of f[j] for j in S
SumOver(S, f) ==
    IF S = {} THEN 0
    ELSE LET j == CHOOSE j \in S : TRUE IN f[j] + SumOver(S \ {j}, f)

(***************************************************************************)
(* Cost functions (mixer.py 175-287).                                      *)
(***************************************************************************)
\* bpm differences are doubled to compare with the doubled threshold
tempo_cost_value(bpm1, bpm2) ==
    IF 2 * abs(bpm1 - bpm2) <= TEMPO_THRESHOLD THEN 0 ELSE TEMPO_PENALTY

\* a variant that shifts the second key by the first track's shift
FastEdgeCostOneShift(i1, i2, s1, s2, bpm_arr, key_id_arr) ==
    LET diff == 2 * abs(bpm_arr[i1] - bpm_arr[i2])
    IN  IF diff > _TEMPO_BREAK_THRESHOLD
        THEN TEMPO_COST_WEIGHT * (TEMPO_PENALTY * TEMPO_BREAK_FACTOR)
        ELSE LET ek1 == _shift_table[key_id_arr[i1] * 3 + (s1 + 1)]
                 ek2 == _shift_table[key_id_arr[i2] * 3 + (s1 + 1)]
                 idx == ek1 * NUM_KEYS + ek2
                 direct == _direct_cost_flat[idx]
                 h_cost == IF direct = NON_HARMONIC_COST
                              /\ _indirect_cost_flat[idx] >= NON_HARMONIC_COST
                           THEN direct + 2 * NON_HARMONIC_COST
                           ELSE direct
                 t_cost == IF diff > TEMPO_THRESHOLD THEN TEMPO_PENALTY ELSE 0
             IN  h_cost + TEMPO_COST_WEIGHT * t_cost

_fast_edge_cost(i1, i2, s1, s2, bpm_arr, key_id_arr) ==
    LET diff == 2 * abs(bpm_arr[i1] - bpm_arr[i2])
    IN  IF diff > _TEMPO_BREAK_THRESHOLD
        THEN TEMPO_COST_WEIGHT * (TEMPO_PENALTY * TEMPO_BREAK_FACTOR)
        ELSE LET ek1 == _shift_table[key_id_arr[i1] * 3 + (s1 + 1)]
                 ek2 == _shift_table[key_id_arr[i2] * 3 + (s2 + 1)]
                 idx == ek1 * NUM_KEYS + ek2
                 direct == _direct_cost_flat[idx]
                 h_cost == IF direct = NON_HARMONIC_COST
                              /\ _indirect_cost_flat[idx] >= NON_HARMONIC_COST
                           THEN direct + 2 * NON_HARMONIC_COST
                           ELSE direct
                 t_cost == IF diff > TEMPO_THRESHOLD THEN TEMPO_PENALTY ELSE 0
             IN  h_cost + TEMPO_COST_WEIGHT * t_cost

\* (h_cost, t_cost) of the transition i1 -> i2, by the string-keyed tables
transition_cost_components(i1, i2, s1, s2) ==
    LET diff == 2 * abs(bpms[i1] - bpms[i2])
    IN  IF diff > TEMPO_BREAK_FACTOR * TEMPO_THRESHOLD
        THEN <<0, tempo_cost_value(bpms[i1], bpms[i2]) * TEMPO_BREAK_FACTOR>>
        ELSE LET key1 == shift_camelot_key(base_keys[i1], s1)
                 key2 == shift_camelot_key(base_keys[i2], s2)
                 direct == transition_harmonic_costs[key1][key2][1]
                 indirect == transition_harmonic_costs[key1][key2][2]
                 h_cost == IF direct = NON_HARMONIC_COST /\ indirect >= NON_HARMONIC_COST
                           THEN direct + 2 * NON_HARMONIC_COST
                           ELSE direct
             IN  <<h_cost, tempo_cost_value(bpms[i1], bpms[i2])>>

\* a variant that forgets TEMPO_COST_WEIGHT
TransitionCostUnweighted(i1, i2, s1, s2) ==
    Let(transition_cost_components(i1, i2, s1, s2), LAMBDA c : c[1] + c[2])

\* mixer.py 260-262
transition_cost_value(i1, i2, s1, s2) ==
    Let(transition_cost_components(i1, i2, s1, s2),
        LAMBDA c : c[1] + TEMPO_COST_WEIGHT * c[2])

\* (harmonic_total, tempo_total, shift_total)
total_mix_cost_split_order(ord, shf) ==
    LET len == Cardinality(DOMAIN ord)
        edge == [j \in 0..(len - 2) |->
                    transition_cost_components(ord[j], ord[j + 1], shf[ord[j]], shf[ord[j + 1]])]
    IN  << SumOver(0..(len - 2), [j \in 0..(len - 2) |-> edge[j][1]]),
           SumOver(0..(len - 2), [j \in 0..(len - 2) |-> edge[j][2]]),
           SHIFT_PENALTY * Cardinality({j \in DOMAIN ord : shf[ord[j]] # 0}) >>

\* (total, h_total, t_total, s_total) by the integer tables
_compute_total_cost(ord, shf, bpm_arr, key_id_arr) ==
    LET len == Cardinality(DOMAIN ord)
        broken(j) == 2 * abs(bpm_arr[ord[j]] - bpm_arr[ord[j + 1]]) > _TEMPO_BREAK_THRESHOLD
        idx(j) == _shift_table[key_id_arr[ord[j]] * 3 + (shf[ord[j]] + 1)] * NUM_KEYS
                  + _shift_table[key_id_arr[ord[j + 1]] * 3 + (shf[ord[j + 1]] + 1)]
        h(j) == IF broken(j) THEN 0
                ELSE IF _direct_cost_flat[idx(j)] = NON_HARMONIC_COST
                        /\ _indirect_cost_flat[idx(j)] >= NON_HARMONIC_COST
                     THEN _direct_cost_flat[idx(j)] + 2 * NON_HARMONIC_COST
                     ELSE _direct_cost_flat[idx(j)]
        t(j) == IF broken(j) THEN TEMPO_PENALTY * TEMPO_BREAK_FACTOR
                ELSE IF 2 * abs(bpm_arr[ord[j]] - bpm_arr[ord[j + 1]]) > TEMPO_THRESHOLD
                     THEN TEMPO_PENALTY ELSE 0
        h_total == SumOver(0..(len - 2), [j \in 0..(len - 2) |-> h(j)])
        t_total == SumOver(0..(len - 2), [j \in 0..(len - 2) |-> t(j)])
        s_total == SHIFT_PENALTY * Cardinality({i \in 0..(len - 1) : shf[i] # 0})
    IN  <<h_total + TEMPO_COST_WEIGHT * t_total + shift_weight * s_total,
          h_total, t_total, s_total>>

(***************************************************************************)
(* Delta-cost primitives (mixer.py 334-402).                               *)
(***************************************************************************)
\* a variant that forgets the edge arriving at each swapped position
EdgePositionsWithoutIncoming(a, b, len) ==
    UNION { (IF p < len - 1 THEN {p} ELSE {}) : p \in {a, b} }

\* a variant that looks at the edges of position a only
EdgePositionsOfFirst(a, b, len) ==
    (IF a > 0 THEN {a - 1} ELSE {}) \cup (IF a < len - 1 THEN {a} ELSE {})

_edge_positions_for_swap(a, b, len) ==
    UNION { (IF p > 0 THEN {p - 1} ELSE {}) \cup (IF p < len - 1 THEN {p} ELSE {}) :
            p \in {a, b} }

_sum_edge_costs(positions, ord, shf, bpm_arr, key_id_arr) ==
    SumOver(positions,
            [j \in positions |->
                _fast_edge_cost(ord[j], ord[j + 1], shf[ord[j]], shf[ord[j + 1]],
                                bpm_arr, key_id_arr)])

\* the sum of the edge costs incident to pos when its track has shift s
LocalEdgeCost(ord, shf, pos, s, bpm_arr, key_id_arr) ==
    LET i == ord[pos]
        len == Cardinality(DOMAIN ord)
    IN  (IF pos > 0
         THEN _fast_edge_cost(ord[pos - 1], i, shf[ord[pos - 1]], s, bpm_arr, key_id_arr)
         ELSE 0)
        + (IF pos < len - 1
           THEN _fast_edge_cost(i, ord[pos + 1], s, shf[ord[pos + 1]], bpm_arr, key_id_arr)
           ELSE 0)

\* a variant that also takes a candidate of equal cost
TryShiftOnTies(best, cost, s) == IF cost <= best[1] THEN <<cost, s>> ELSE best

\* one turn of "for s in (-1, 0, 1)": best is (best_cost, best_s)
TryShift(best, cost, s) == IF cost < best[1] THEN <<cost, s>> ELSE best

\* a variant whose last candidate is recorded as +2
ShiftLoopWide(c0, c, old) ==
    TryShift(TryShift(TryShift(<<c0, old>>, c[1], -1), c[2], 0), c[3], 2)[2]

\* the loop "for s in (-1, 0, 1)" over the costs c = (cost(-1), cost(0), cost(1)),
\* started from the current shift old and its cost c0
ShiftLoop(c0, c, old) ==
    TryShift(TryShift(TryShift(<<c0, old>>, c[1], -1), c[2], 0), c[3], 1)[2]

\* the list shifts after _optimize_shift_fast(order, shifts, pos, ...)
_optimize_shift_fast(ord, shf, pos, bpm_arr, key_id_arr) ==
    LET i == ord[pos]
    IN  [shf EXCEPT ![i] =
            Let(<<LocalEdgeCost(ord, shf, pos, shf[i], bpm_arr, key_id_arr),
                  [s \in {-1, 0, 1} |-> LocalEdgeCost(ord, shf, pos, s, bpm_arr, key_id_arr)]>>,
                LAMBDA c : ShiftLoop(c[1], <<c[2][-1], c[2][0], c[2][1]>>, shf[i]))]

\* mixer.py 311-315 and 321-325: the local cost of pos by the string-keyed
\* tables when its track has shift s
StringLocalCost(ord, shf, pos, s) ==
    LET i == ord[pos]
        len == Cardinality(DOMAIN ord)
    IN  (IF pos > 0
         THEN transition_cost_value(ord[pos - 1], i, shf[ord[pos - 1]], s)
         ELSE 0)
        + (IF pos < len - 1
           THEN transition_cost_value(i, ord[pos + 1], s, shf[ord[pos + 1]])
           ELSE 0)

\* the list shifts after optimize_shift_at(order, shifts, pos); the value
\* returned is the new shifts[order[pos]]
optimize_shift_at(ord, shf, pos) ==
    LET i == ord[pos]
    IN  [shf EXCEPT ![i] =
            Let(<<StringLocalCost(ord, shf, pos, shf[i]),
                  [s \in {-1, 0, 1} |-> StringLocalCost(ord, shf, pos, s)]>>,
                LAMBDA c : ShiftLoop(c[1], <<c[2][-1], c[2][0], c[2][1]>>, shf[i]))]

(***************************************************************************)
(* The state machine.                                                      *)
(***************************************************************************)
Permutations0(len) ==
    {f \in [0..(len - 1) -> 0..(len - 1)] : \A i, j \in 0..(len - 1) : f[i] = f[j] => i = j}

AttemptCap == IF n <= 2 THEN MaxAttempts ELSE 1

ClockReadings == {k * ClockTick : k \in 0..MaxTicks}

\* a variant that forgets the "attempt > 1" guard
ShouldBreakOnTimeOnly(att, remaining) == remaining <= 0

\* mixer.py 698: "if attempt > 1 and remaining <= 0: break"
ShouldBreak(att, remaining) == att > 1 /\ remaining <= 0

\* a variant with the comparison turned around
IsNewGlobalWorst(overall, global_cost) == overall > global_cost

\* mixer.py 723: "if overall < global_overall_best_cost"
IsNewGlobalBest(overall, global_cost) == overall < global_cost

\* a variant that drops the second assignment of the swap
SwapHalf(ord, a, b) == [ord EXCEPT ![a] = ord[b]]

\* mixer.py 454: order[a], order[b] = order[b], order[a]
Swap(ord, a, b) == [ord EXCEPT ![a] = ord[b], ![b] = ord[a]]

\* a variant that looks at position a only
ShiftCountFirstOnly(ord, shf, a, b) == IF shf[ord[a]] # 0 THEN 1 ELSE 0

\* mixer.py 449-451 and 464-466: the number of non-zero shifts among the
\* tracks at positions a and b
ShiftCount(ord, shf, a, b) ==
    (IF shf[ord[a]] # 0 THEN 1 ELSE 0) + (IF shf[ord[b]] # 0 THEN 1 ELSE 0)

\* a variant that ends the escape as soon as the counter reaches the budget
EscapeBudgetReached(counter, num_candidates) == counter >= num_candidates

\* mixer.py 485: "if escape_counter > num_candidates", after the increment
EscapeBudgetExceeded(counter, num_candidates) == counter > num_candidates

\* a variant that goes on from the working state in normal mode too
KeepWorking(escape, best, working) == working

\* mixer.py 435-439: "if not in_escape_mode:" the working value is reset to
\* the best one
ResetToBest(escape, best, working) == IF ~escape THEN best ELSE working

IdleLocals ==
    /\ order = Empty /\ shifts = Empty
    /\ best_order = Empty /\ best_shifts = Empty /\ best_cost = 0
    /\ current_cost = 0 /\ candidate_cost = 0
    /\ master_iter = 0 /\ in_escape_mode = FALSE /\ escape_counter = 0

\* the locals of simulated_annealing_mix go out of scope at its return
DropLocals ==
    /\ order' = Empty /\ shifts' = Empty
    /\ best_order' = Empty /\ best_shifts' = Empty /\ best_cost' = 0
    /\ current_cost' = 0 /\ candidate_cost' = 0
    /\ master_iter' = 0 /\ in_escape_mode' = FALSE /\ escape_counter' = 0

\* no library-management tool is running
ToolsIdle ==
    /\ args = None
    /\ music_writes = <<>>
    /\ groups_file = <<>>
    /\ groups = <<>>
    /\ group_pos = 0
    /\ session = <<>>
    /\ dry_run = TRUE
    /\ responses = <<>>
    /\ updates = <<>>
    /\ backup_file = None
    /\ update_pos = 0
    /\ changes_log = <<>>

\* the state in which the start-up and loading sections (mixer.py 20-234)
\* leave the module when every row of the playlist p was accepted
Loaded(p) ==
    /\ argv_minutes = None
    /\ args_minutes = None
    /\ minutes_binding = <<OPTIMIZER_TIME_LIMIT_MINUTES>>
    /\ mix_input_df = p
    /\ row_pos = Len(p)
    /\ mix_tracks_data = List(p)
    /\ exception = None
    /\ call = NoCall
    /\ ToolsIdle

InitWith(weights) ==
    /\ \E p \in Pools : Loaded(p)
    /\ shift_weight \in weights
    /\ time_limit_seconds = OPTIMIZER_TIME_LIMIT_MINUTES * 60
    /\ pc = "outer"
    /\ now = 0
    /\ attempt = 0
    /\ global_overall_best_cost = Inf
    /\ global_overall_best_order = Empty
    /\ global_overall_best_shifts = Empty
    /\ attempt_results = <<>>
    /\ IdleLocals

Init == InitWith({SHIFT_WEIGHT})

InitSettings == InitWith(ShiftWeightSettings)

\* mixer.py 694-699: the head of "while True" when it takes the break (729-730)
OuterBreak ==
    /\ pc = "outer"
    /\ \E t \in ClockReadings :
        /\ t >= now
        /\ now' = t
        /\ attempt' = attempt + 1
        /\ LET elapsed == t
               remaining == time_limit_seconds - elapsed
           IN  ShouldBreak(attempt', remaining)
    /\ pc' = "done"
    /\ UNCHANGED <<aside_vars, exception, input_vars, global_overall_best_cost, global_overall_best_order,
                   global_overall_best_shifts, attempt_results, anneal_vars>>

\* mixer.py 694-702 and 407-430: the head of "while True" when it goes on,
\* and the initialisation of simulated_annealing_mix
OuterLaunch ==
    /\ pc = "outer"
    /\ attempt < AttemptCap
    /\ \E t \in ClockReadings :
        /\ t >= now
        /\ now' = t
        /\ attempt' = attempt + 1
        /\ LET elapsed == t
               remaining == time_limit_seconds - elapsed
           IN  ~ShouldBreak(attempt', remaining)
    /\ \E o \in Permutations0(n), sh \in [0..(n - 1) -> {-1, 0, 1}] :
        /\ order' = o
        /\ shifts' = sh
        /\ best_cost' = _compute_total_cost(o, sh, bpms, base_key_ids)[1]
        /\ best_order' = o
        /\ best_shifts' = sh
    /\ master_iter' = 0
    /\ in_escape_mode' = FALSE
    /\ escape_counter' = 0
    /\ current_cost' = best_cost'
    /\ candidate_cost' = 0
    /\ pc' = "anneal"
    /\ UNCHANGED <<aside_vars, exception, input_vars, global_overall_best_cost, global_overall_best_order,
                   global_overall_best_shifts, attempt_results>>

\* mixer.py 434-499: one iteration of the main optimization loop.  a, b are
\* random.sample(range(n), 2); draw tells whether exp((best_cost -
\* candidate_cost) / temp) > random.random(), which is certain when the
\* exponent is 0 (exp(0) = 1.0 > random() in [0, 1)) and open otherwise.
AnnealStep(a, b, draw) ==
    /\ pc = "anneal"
    /\ master_iter < TOTAL_ITERATIONS
    /\ \E o0 \in {ResetToBest(in_escape_mode, best_order, order)},
          s0 \in {ResetToBest(in_escape_mode, best_shifts, shifts)},
          c0 \in {ResetToBest(in_escape_mode, best_cost, current_cost)},
          bpm_arr \in {bpms}, key_id_arr \in {base_key_ids} :
       \E o1 \in {Swap(o0, a, b)} :
       \E s1 \in {_optimize_shift_fast(o1, s0, a, bpm_arr, key_id_arr)} :
       \E s2 \in {_optimize_shift_fast(o1, s1, b, bpm_arr, key_id_arr)} :
       LET num_candidates == MULTI_SWAP_FACTOR * n
           affected == _edge_positions_for_swap(a, b, n)
           old_edge_cost == _sum_edge_costs(affected, o0, s0, bpm_arr, key_id_arr)
           old_shift_count == ShiftCount(o0, s0, a, b)
           new_edge_cost == _sum_edge_costs(affected, o1, s2, bpm_arr, key_id_arr)
           new_shift_count == ShiftCount(o1, s2, a, b)
           shift_delta == SHIFT_PENALTY * shift_weight * (new_shift_count - old_shift_count)
       IN  \E cand \in {c0 + (new_edge_cost - old_edge_cost) + shift_delta} :
           LET metropolis == IF best_cost - cand = 0 THEN TRUE ELSE draw IN
           /\ order' = o1
           /\ shifts' = s2
           /\ candidate_cost' = cand
           /\ IF cand < best_cost
              THEN /\ best_order' = o1
                   /\ best_shifts' = s2
                   /\ best_cost' = cand
                   /\ current_cost' = cand
                   /\ in_escape_mode' = FALSE
                   /\ escape_counter' = escape_counter
              ELSE /\ UNCHANGED <<best_order, best_shifts, best_cost>>
                   /\ IF in_escape_mode
                      THEN /\ current_cost' = cand
                           /\ IF EscapeBudgetExceeded(escape_counter + 1, num_candidates)
                              THEN in_escape_mode' = FALSE /\ escape_counter' = 0
                              ELSE in_escape_mode' = TRUE /\ escape_counter' = escape_counter + 1
                      ELSE IF metropolis
                           THEN /\ in_escape_mode' = TRUE
                                /\ escape_counter' = 0
                                /\ current_cost' = cand
                           ELSE /\ in_escape_mode' = FALSE
                                /\ escape_counter' = escape_counter
                                /\ current_cost' = c0
    /\ master_iter' = master_iter + 1
    /\ UNCHANGED <<aside_vars, exception, input_vars, pc, outer_vars>>

Step == \E a, b \in 0..(n - 1), draw \in BOOLEAN : a # b /\ AnnealStep(a, b, draw)

\* mixer.py 434-442 on a single track: random.sample(range(n), 2) raises
\* ValueError (sample larger than population) in the first iteration
SampleRaises ==
    /\ pc = "anneal"
    /\ master_iter < TOTAL_ITERATIONS
    /\ n < 2
    /\ exception' = ValueError
    /\ pc' = "raised"
    /\ order' = ResetToBest(in_escape_mode, best_order, order)
    /\ shifts' = ResetToBest(in_escape_mode, best_shifts, shifts)
    /\ current_cost' = ResetToBest(in_escape_mode, best_cost, current_cost)
    /\ UNCHANGED <<aside_vars, input_vars, outer_vars, best_order, best_shifts, best_cost,
                   candidate_cost, master_iter, in_escape_mode, escape_counter>>

\* mixer.py 501 and 702-727: the attempt returns and the outer loop records it
AttemptReturn ==
    /\ pc = "anneal"
    /\ ~(master_iter < TOTAL_ITERATIONS)
    /\ \E hts \in {total_mix_cost_split_order(best_order, best_shifts)} :
       \E overall \in {hts[1] + TEMPO_COST_WEIGHT * hts[2] + hts[3]} :
           /\ attempt_results' =
                Append(attempt_results,
                       [best_order |-> best_order, best_shifts |-> best_shifts,
                        best_cost |-> best_cost, hts |-> hts, overall |-> overall])
           /\ IF IsNewGlobalBest(overall, global_overall_best_cost)
              THEN /\ global_overall_best_cost' = overall
                   /\ global_overall_best_order' = best_order
                   /\ global_overall_best_shifts' = best_shifts
              ELSE UNCHANGED <<global_overall_best_cost, global_overall_best_order,
                               global_overall_best_shifts>>
    /\ DropLocals
    /\ pc' = "outer"
    /\ UNCHANGED <<aside_vars, exception, input_vars, now, attempt>>

Next == OuterBreak \/ OuterLaunch \/ Step \/ SampleRaises \/ AttemptReturn

Spec == Init /\ [][Next]_vars

SpecSettings == InitSettings /\ [][Next]_vars


(***************************************************************************)
(* Start-up and track loading of the driver (mixer.py 20-234, 622-623;     *)
(* camelot.py 58-67).                                                      *)
(***************************************************************************)
\* rows of a playlist the model follows
MaxRows == 2

RECURSIVE split(_)
\* s.split(): the maximal runs of non-blank characters of s
split(s) ==
    IF Len(s) = 0 THEN <<>>
    ELSE IF s[1] = " " THEN split(Tail(s))
    ELSE LET ends == {k \in 1..Len(s) : k = Len(s) \/ s[k + 1] = " "}
             k == MinOf(ends)
         IN  <<SubSeq(s, 1, k)>> \o split(SubSeq(s, k + 1, Len(s)))

\* float() of a string of decimal digits
float(s) == int(s)

\* camelot.py 58-67; IndexError stands for the exception of split()[0]
extract_key_from_comments(comments) ==
    IF comments = None \/ Len(comments) = 0 THEN None
    ELSE IF Len(split(comments)) = 0 THEN IndexError
    ELSE lstrip0(split(comments)[1])

\* mixer.py 209
valid_keys ==
    {Key(num, letter) : num \in 1..12, letter \in {"A", "B"}}

\* the command lines followed: no argument, "1", "10"
Arguments == {None, <<"1">>, <<"1", "0">>}

\* the Comments fields followed: missing, "", " ", "8A", "08A x", " 8A",
\* "13A", "0"
CommentsFields ==
    { None, <<" ">>, <<"8", "A">>, <<"0", "8", "A", " ", "x">>, <<" ", "8", "A">>,
      <<"1", "3", "A">>, <<"0">> }

\* the rows a playlist is made of: (BPM, Comments)
Rows == {0, 120} \X CommentsFields

Playlists == UNION {[1..len -> Rows] : len \in 0..MaxRows}

\* the globals the module body starts in: those of a fresh interpreter
\* (python mixer.py), where the name is unbound, or a namespace that already
\* binds it (runpy.run_path with init_globals, %run -i)
StartGlobals == {Unbound, <<OPTIMIZER_TIME_LIMIT_MINUTES>>}

\* mix_tracks_data.append(track)
append(list, x) ==
    [i \in 0..Cardinality(DOMAIN list) |-> IF i \in DOMAIN list THEN list[i] ELSE x]

InitDriver ==
    /\ pc = "argparse"
    /\ argv_minutes \in Arguments
    /\ minutes_binding \in StartGlobals
    /\ args_minutes = None
    /\ mix_input_df = Empty
    /\ row_pos = 0
    /\ mix_tracks_data = Empty
    /\ shift_weight = SHIFT_WEIGHT
    /\ time_limit_seconds = 0
    /\ exception = None
    /\ call = NoCall
    /\ ToolsIdle
    /\ now = 0
    /\ attempt = 0
    /\ global_overall_best_cost = Inf
    /\ global_overall_best_order = Empty
    /\ global_overall_best_shifts = Empty
    /\ attempt_results = <<>>
    /\ IdleLocals

\* a variant whose help text does not read OPTIMIZER_TIME_LIMIT_MINUTES
ArgparseBlockWithoutRead ==
    /\ pc = "argparse"
    /\ args_minutes' = IF argv_minutes = None THEN None ELSE <<float(argv_minutes)>>
    /\ minutes_binding' = IF args_minutes' # None THEN args_minutes' ELSE minutes_binding
    /\ pc' = "parameters"
    /\ UNCHANGED <<exception, argv_minutes, mix_input_df, row_pos, call, tool_vars,
                   input_vars, outer_vars, anneal_vars>>

\* mixer.py 20-29: the help text reads OPTIMIZER_TIME_LIMIT_MINUTES
ArgparseBlock ==
    /\ pc = "argparse"
    /\ IF minutes_binding = Unbound
       THEN /\ exception' = NameError
            /\ pc' = "raised"
            /\ UNCHANGED <<args_minutes, minutes_binding>>
       ELSE /\ args_minutes' = IF argv_minutes = None THEN None
                               ELSE <<float(argv_minutes)>>
            /\ minutes_binding' = IF args_minutes' # None THEN args_minutes'
                                  ELSE minutes_binding
            /\ pc' = "parameters"
            /\ UNCHANGED exception
    /\ UNCHANGED <<argv_minutes, mix_input_df, row_pos, call, tool_vars, input_vars, outer_vars,
                   anneal_vars>>

\* mixer.py 41-64: the global parameters are assigned
AssignParameters ==
    /\ pc = "parameters"
    /\ minutes_binding' = <<OPTIMIZER_TIME_LIMIT_MINUTES>>
    /\ pc' = "load"
    /\ UNCHANGED <<argv_minutes, args_minutes, mix_input_df, row_pos, call, tool_vars, exception,
                   input_vars, outer_vars, anneal_vars>>

\* mixer.py 205-210
LoadPlaylist ==
    /\ pc = "load"
    /\ mix_input_df' \in Playlists
    /\ mix_tracks_data' = Empty
    /\ row_pos' = 0
    /\ pc' = "rows"
    /\ UNCHANGED <<argv_minutes, args_minutes, minutes_binding, call, tool_vars, exception,
                   shift_weight, time_limit_seconds, outer_vars, anneal_vars>>

\* mixer.py 211-224: one iteration of the loading loop
LoadRow ==
    /\ pc = "rows"
    /\ row_pos < Len(mix_input_df)
    /\ LET row == mix_input_df[row_pos + 1]
           key == extract_key_from_comments(row[2])
       IN  IF key = IndexError
           THEN /\ exception' = IndexError
                /\ pc' = "raised"
                /\ UNCHANGED <<row_pos, mix_tracks_data>>
           ELSE /\ row_pos' = row_pos + 1
                /\ mix_tracks_data' =
                      IF row[1] = 0 THEN mix_tracks_data
                      ELSE IF key = None \/ key \notin valid_keys THEN mix_tracks_data
                      ELSE append(mix_tracks_data, <<row[1], key>>)
                /\ UNCHANGED <<pc, exception>>
    /\ UNCHANGED <<argv_minutes, args_minutes, minutes_binding, mix_input_df, call, tool_vars,
                   shift_weight, time_limit_seconds, outer_vars, anneal_vars>>

\* mixer.py 225-234
TracksLoaded ==
    /\ pc = "rows"
    /\ ~(row_pos < Len(mix_input_df))
    /\ IF Cardinality(DOMAIN mix_tracks_data) = 0
       THEN exception' = ValueError /\ pc' = "raised"
       ELSE pc' = "start" /\ UNCHANGED exception
    /\ UNCHANGED <<startup_vars, call, tool_vars, input_vars, outer_vars, anneal_vars>>

\* mixer.py 622-623 and 689-692
OptimizerStart ==
    /\ pc = "start"
    /\ time_limit_seconds' = minutes_binding[1] * 60
    /\ now' = 0
    /\ attempt' = 0
    /\ global_overall_best_cost' = Inf
    /\ global_overall_best_order' = Empty
    /\ global_overall_best_shifts' = Empty
    /\ pc' = "outer"
    /\ UNCHANGED <<startup_vars, call, tool_vars, exception, mix_tracks_data, shift_weight,
                   attempt_results, anneal_vars>>

NextDriver ==
    ArgparseBlock \/ AssignParameters \/ LoadPlaylist \/ LoadRow \/ TracksLoaded
        \/ OptimizerStart

SpecDriver == InitDriver /\ [][NextDriver]_vars

(***************************************************************************)
(* Calls of the module-level functions and lookups of the precomputed      *)
(* tables, each on arguments drawn from the sets below.                    *)
(***************************************************************************)
\* the BPM pairs followed: differences 0, 4, 5, 9, 10 and -10 around the
\* thresholds 4.5 and 9
BpmPairs == {<<120, 120>>, <<120, 124>>, <<120, 125>>, <<120, 129>>, <<120, 130>>,
             <<130, 120>>}

KeyParts == (1..12) \X {"A", "B"}

\* the largest len of the calls of _edge_positions_for_swap(a, b, len)
MaxPositions == 6

\* the accepted rows of the mix states the calls are made in: BPM
\* differences below 4.5, between 4.5 and 9 and above 9, and keys at 1, 5, 6
\* and 7 steps of the wheel
MixPools ==
    { << <<120, Key(8, "A")>>, <<124, Key(3, "A")>>, <<126, Key(9, "A")>>,
         <<140, Key(9, "B")>> >> }

\* a mix state: the rows, an order and the shifts
MixStates ==
    UNION { {<<p, o, sh>> : o \in Permutations0(Len(p)),
                           sh \in [0..(Len(p) - 1) -> {-1, 0, 1}]} : p \in MixPools }

\* a call that has not returned yet
Pending(fn, arguments) == [fn |-> fn, args |-> arguments, ret |-> <<>>]

\* the calls on keys and tracks, by function: the arguments are
\*   harmonic_cost_from_keys, transition_harmonic_costs: two keys (num, letter)
\*   shift_camelot_key: a key (num, letter) and a shift
\*   _shift_table: a key id and a shift
\*   _fast_edge_cost: two tracks (bpm, key id) and their shifts
Calls ==
    {Pending("harmonic_cost_from_keys", a) : a \in KeyParts \X KeyParts}
    \cup {Pending("transition_harmonic_costs", a) : a \in KeyParts \X KeyParts}
    \cup {Pending("shift_camelot_key", a) : a \in KeyParts \X {-1, 0, 1}}
    \cup {Pending("_shift_table", a) : a \in (0..(NUM_KEYS - 1)) \X {-1, 0, 1}}
    \cup {Pending("_fast_edge_cost", a) :
            a \in BpmPairs \X ((0..(NUM_KEYS - 1)) \X (0..(NUM_KEYS - 1)))
                  \X ({-1, 0, 1} \X {-1, 0, 1})}

\* the calls of transition_cost_value: two tracks (bpm, key id) and their
\* shifts
PairCalls ==
    {Pending("transition_cost_value", a) :
        a \in BpmPairs \X ((0..(NUM_KEYS - 1)) \X (0..(NUM_KEYS - 1)))
              \X ({-1, 0, 1} \X {-1, 0, 1})}

\* the calls of _edge_positions_for_swap: a, b, n
PositionCalls ==
    {Pending("_edge_positions_for_swap", a) :
        a \in {x \in (0..(MaxPositions - 1)) \X (0..(MaxPositions - 1))
                        \X (2..MaxPositions) :
                  x[1] # x[2] /\ x[1] < x[3] /\ x[2] < x[3]}}

\* the calls made in the mix state m, by function: the arguments are
\*   _optimize_shift_fast, optimize_shift_at: the mix state and pos
\*   swap_and_optimize (lines 453-458 of simulated_annealing_mix): the mix
\*       state and the positions a, b
\*   _compute_total_cost: the mix state
MixCalls(m) ==
    {Pending("_optimize_shift_fast", <<m[1], m[2], m[3], pos>>) :
        pos \in 0..(Len(m[1]) - 1)}
    \cup {Pending("optimize_shift_at", <<m[1], m[2], m[3], pos>>) :
            pos \in 0..(Len(m[1]) - 1)}
    \cup {Pending("swap_and_optimize", <<m[1], m[2], m[3], ab[1], ab[2]>>) :
            ab \in {x \in (0..(Len(m[1]) - 1)) \X (0..(Len(m[1]) - 1)) : x[1] # x[2]}}
    \cup {Pending("_compute_total_cost", m)}

\* mix_tracks_data when the call c is made
CallTracks(c) ==
    CASE c.fn \in {"_optimize_shift_fast", "optimize_shift_at", "swap_and_optimize",
                   "_compute_total_cost"} -> List(c.args[1])
      [] c.fn = "transition_cost_value" ->
            List(<< <<c.args[1][1], camelot_keys[c.args[2][1] + 1]>>,
                    <<c.args[1][2], camelot_keys[c.args[2][2] + 1]>> >>)
      [] OTHER -> Empty

InitCalls ==
    /\ pc = "call"
    /\ \/ call \in Calls
       \/ call \in PairCalls
       \/ call \in PositionCalls
       \/ \E m \in MixStates : call \in MixCalls(m)
    /\ argv_minutes = None
    /\ args_minutes = None
    /\ minutes_binding = <<OPTIMIZER_TIME_LIMIT_MINUTES>>
    /\ mix_input_df = Empty
    /\ row_pos = 0
    /\ mix_tracks_data = CallTracks(call)
    /\ shift_weight = SHIFT_WEIGHT
    /\ time_limit_seconds = 0
    /\ exception = None
    /\ ToolsIdle
    /\ now = 0
    /\ attempt = 0
    /\ global_overall_best_cost = Inf
    /\ global_overall_best_order = Empty
    /\ global_overall_best_shifts = Empty
    /\ attempt_results = <<>>
    /\ IdleLocals

\* the call returns ret
Return(ret) ==
    /\ call' = [call EXCEPT !.ret = ret]
    /\ pc' = "returned"
    /\ UNCHANGED <<startup_vars, tool_vars, exception, input_vars, outer_vars, anneal_vars>>

CallHarmonicCost ==
    /\ pc = "call" /\ call.fn = "harmonic_cost_from_keys"
    /\ LET a == call.args
       IN  Return(harmonic_cost_from_keys(Key(a[1][1], a[1][2]), Key(a[2][1], a[2][2])))

\* (direct, indirect) of transition_harmonic_costs and of the flat arrays
LookupTransitionCosts ==
    /\ pc = "call" /\ call.fn = "transition_harmonic_costs"
    /\ LET key1 == Key(call.args[1][1], call.args[1][2])
           key2 == Key(call.args[2][1], call.args[2][2])
           idx == KEY_TO_ID[key1] * NUM_KEYS + KEY_TO_ID[key2]
       IN  Return(<<transition_harmonic_costs[key1][key2],
                    <<_direct_cost_flat[idx], _indirect_cost_flat[idx]>> >>)

CallShiftKey ==
    /\ pc = "call" /\ call.fn = "shift_camelot_key"
    /\ LET a == call.args
       IN  Return(shift_camelot_key(Key(a[1][1], a[1][2]), a[2]))

LookupShiftTable ==
    /\ pc = "call" /\ call.fn = "_shift_table"
    /\ Return(_shift_table[call.args[1] * 3 + (call.args[2] + 1)])

CallFastEdgeCost ==
    /\ pc = "call" /\ call.fn = "_fast_edge_cost"
    /\ LET a == call.args
       IN  Return(_fast_edge_cost(0, 1, a[3][1], a[3][2], List(a[1]), List(a[2])))

\* the value by the string-keyed tables and the value by the integer tables
CallTransitionCostValue ==
    /\ pc = "call" /\ call.fn = "transition_cost_value"
    /\ LET a == call.args
       IN  Return(<<transition_cost_value(0, 1, a[3][1], a[3][2]),
                    _fast_edge_cost(0, 1, a[3][1], a[3][2], bpms, base_key_ids)>>)

CallEdgePositions ==
    /\ pc = "call" /\ call.fn = "_edge_positions_for_swap"
    /\ Return(_edge_positions_for_swap(call.args[1], call.args[2], call.args[3]))

\* the list shifts after the call
CallOptimizeShiftFast ==
    /\ pc = "call" /\ call.fn = "_optimize_shift_fast"
    /\ Return(_optimize_shift_fast(call.args[2], call.args[3], call.args[4],
                                   bpms, base_key_ids))

\* the list shifts after the call
CallOptimizeShiftAt ==
    /\ pc = "call" /\ call.fn = "optimize_shift_at"
    /\ Return(optimize_shift_at(call.args[2], call.args[3], call.args[4]))

\* mixer.py 453-458: (order, shifts) after the swap of the positions a, b and
\* the two shift optimizations
CallSwapAndOptimize ==
    /\ pc = "call" /\ call.fn = "swap_and_optimize"
    /\ LET a == call.args[4]
           b == call.args[5]
       IN  \E o1 \in {Swap(call.args[2], a, b)} :
           \E s1 \in {_optimize_shift_fast(o1, call.args[3], a, bpms, base_key_ids)} :
               Return(<<o1, _optimize_shift_fast(o1, s1, b, bpms, base_key_ids)>>)

\* the tuple of _compute_total_cost and the tuple of total_mix_cost_split_order
CallTotalCost ==
    /\ pc = "call" /\ call.fn = "_compute_total_cost"
    /\ Return(<<_compute_total_cost(call.args[2], call.args[3], bpms, base_key_ids),
                total_mix_cost_split_order(call.args[2], call.args[3])>>)

NextCalls ==
    CallHarmonicCost \/ LookupTransitionCosts \/ CallShiftKey \/ LookupShiftTable
        \/ CallFastEdgeCost \/ CallTransitionCostValue \/ CallEdgePositions
        \/ CallOptimizeShiftFast \/ CallOptimizeShiftAt \/ CallSwapAndOptimize
        \/ CallTotalCost

SpecCalls == InitCalls /\ [][NextCalls]_vars

(***************************************************************************)
(* library-management/resolve_tagger.py                                    *)
(***************************************************************************)
\* groups in the input file
MaxGroups == 2
\* tracks in a group
MaxTracks == 2

\* the state of the mixer module while another program runs
MixerIdle ==
    /\ argv_minutes = None
    /\ args_minutes = None
    /\ minutes_binding = Unbound
    /\ mix_input_df = Empty
    /\ row_pos = 0
    /\ mix_tracks_data = Empty
    /\ shift_weight = SHIFT_WEIGHT
    /\ time_limit_seconds = 0
    /\ exception = None
    /\ call = NoCall
    /\ now = 0
    /\ attempt = 0
    /\ global_overall_best_cost = Inf
    /\ global_overall_best_order = Empty
    /\ global_overall_best_shifts = Empty
    /\ attempt_results = <<>>
    /\ IdleLocals

mixer_vars == <<input_vars, outer_vars, anneal_vars, startup_vars, call, exception>>

\* a group of the JSON file: its 'status' ("none" when the key is absent),
\* whether its consensus has a genre_primary and a genre_alternate, and the
\* number of its tracks
GroupRecords ==
    [status : {"none", "fixed", "ignored"},
     genres : {<<TRUE, TRUE>>, <<TRUE, FALSE>>, <<FALSE, FALSE>>},
     tracks : 1..MaxTracks]

GroupFiles == UNION {[1..k -> GroupRecords] : k \in 0..MaxGroups}

Resolved(group) == group.status \in {"fixed", "ignored"}

\* the keys the prompt reacts to; "^C" is Ctrl-C
Keys == {"1", "2", "I", "S", "Q", "^C"}

\* what happens to a track in apply_fix: verify_track reports an ID
\* mismatch, or update_track_metadata returns True, or it returns False
TrackOutcomes == {"mismatch", "updated", "failed"}

InitTagger ==
    /\ pc = "tagger_start"
    /\ args \in [dry_run : BOOLEAN]
    /\ groups_file \in GroupFiles
    /\ groups = <<>>
    /\ group_pos = 0
    /\ session = <<>>
    /\ music_writes = <<>>
    /\ dry_run = TRUE
    /\ responses = <<>>
    /\ updates = <<>>
    /\ backup_file = None
    /\ update_pos = 0
    /\ changes_log = <<>>
    /\ MixerIdle

\* resolve_tagger.py 130-133: json.dump(groups, f)
save_progress(grps) == groups_file' = grps

\* resolve_tagger.py 136-176: the file is read; main returns at once when
\* every group is resolved
TaggerStart ==
    /\ pc = "tagger_start"
    /\ groups' = groups_file
    /\ group_pos' = 0
    /\ session' = [fixed |-> 0, ignored |-> 0, skipped |-> 0, errors |-> 0]
    /\ pc' = IF \A k \in DOMAIN groups_file : Resolved(groups_file[k])
             THEN "tagger_done" ELSE "tagger_loop"
    /\ UNCHANGED <<args, music_writes, groups_file, year_vars, mixer_vars>>

\* resolve_tagger.py 178-181: a group resolved in a previous session
TaggerSkipResolved ==
    /\ pc = "tagger_loop"
    /\ group_pos < Len(groups)
    /\ Resolved(groups[group_pos + 1])
    /\ group_pos' = group_pos + 1
    /\ UNCHANGED <<args, music_writes, groups_file, groups, session, pc, year_vars,
                   mixer_vars>>

\* resolve_tagger.py 80-118: (the writes executed, errors)
apply_fix(g, group, outcome, dry) ==
    LET tracks == [t \in 1..group.tracks |-> <<"update", g, t>>]
        written == IF dry THEN <<>>
                   ELSE SelectSeq(tracks, LAMBDA w : outcome[w[3]] = "updated")
        errors == Cardinality({t \in 1..group.tracks :
                                  \/ outcome[t] = "mismatch"
                                  \/ ~dry /\ outcome[t] = "failed"})
    IN  <<written, errors>>

\* resolve_tagger.py 121-127: (the writes executed, errors); e is the error
\* count add_tracks_to_playlist returns
apply_ignore(g, group, e, dry) ==
    IF dry THEN <<<<>>, 0>> ELSE << << <<"ignore", g, 0>> >>, e >>

\* resolve_tagger.py 183-245: a pending group is shown and a key is pressed.
\* Keys the prompt does not react to leave it waiting.
TaggerKeypress(ch, outcome, e) ==
    /\ pc = "tagger_loop"
    /\ group_pos < Len(groups)
    /\ ~Resolved(groups[group_pos + 1])
    /\ LET g == group_pos + 1
           group == groups[g]
       IN  /\ ch = "1" => group.genres[1]
           /\ ch = "2" => group.genres[2]
           /\ CASE ch = "S" ->
                    /\ session' = [session EXCEPT !.skipped = @ + 1]
                    /\ group_pos' = g
                    /\ UNCHANGED <<groups, groups_file, music_writes, pc>>
                [] ch = "I" ->
                    /\ groups' = [groups EXCEPT ![g].status = "ignored"]
                    /\ music_writes' = music_writes \o apply_ignore(g, group, e, args.dry_run)[1]
                    /\ session' = [session EXCEPT
                                      !.ignored = @ + 1,
                                      !.errors = @ + apply_ignore(g, group, e, args.dry_run)[2]]
                    /\ save_progress(groups')
                    /\ group_pos' = g
                    /\ UNCHANGED pc
                [] ch \in {"1", "2"} ->
                    /\ groups' = [groups EXCEPT ![g].status = "fixed"]
                    /\ music_writes' = music_writes \o apply_fix(g, group, outcome, args.dry_run)[1]
                    /\ session' = [session EXCEPT
                                      !.fixed = @ + 1,
                                      !.errors = @ + apply_fix(g, group, outcome, args.dry_run)[2]]
                    /\ save_progress(groups')
                    /\ group_pos' = g
                    /\ UNCHANGED pc
                [] ch \in {"Q", "^C"} ->
                    /\ save_progress(groups)
                    /\ pc' = "tagger_done"
                    /\ UNCHANGED <<groups, group_pos, session, music_writes>>
    /\ UNCHANGED <<args, year_vars, mixer_vars>>

Keypress ==
    \E ch \in Keys, outcome \in [1..MaxTracks -> TrackOutcomes], e \in 0..MaxTracks :
        TaggerKeypress(ch, outcome, e)

\* resolve_tagger.py 247-251
TaggerFinish ==
    /\ pc = "tagger_loop"
    /\ ~(group_pos < Len(groups))
    /\ save_progress(groups)
    /\ pc' = "tagger_done"
    /\ UNCHANGED <<args, music_writes, groups, group_pos, session, year_vars, mixer_vars>>

NextTagger == TaggerStart \/ TaggerSkipResolved \/ Keypress \/ TaggerFinish

SpecTagger == InitTagger /\ [][NextTagger]_vars

(***************************************************************************)
(* library-management/update_year.py                                       *)
(***************************************************************************)
\* tracks missing their year
MaxUpdates == 2

\* the answers typed at a prompt
Responses == {"yes", "YES", "no", ""}

\* response.lower()
lower(response) == IF response = "YES" THEN "yes" ELSE response

\* what update_track_year meets in the Music app: the track is not found;
\* its year is already the new one; the set script does not return
\* "success"; the set script ran but the track cannot be read back, or reads
\* back with another year; or the year is set and verified
UpdateOutcomes ==
    {"not_found", "already", "set_failed", "unreadable", "mismatch", "verified"}

InitYear ==
    /\ pc = "year_start"
    /\ args \in [apply : BOOLEAN, test_one : BOOLEAN]
    /\ dry_run = TRUE
    /\ responses = <<>>
    /\ updates = <<>>
    /\ backup_file = None
    /\ update_pos = 0
    /\ changes_log = <<>>
    /\ music_writes = <<>>
    /\ groups_file = <<>>
    /\ groups = <<>>
    /\ group_pos = 0
    /\ session = <<>>
    /\ MixerIdle

\* input(...) answered by response: "Cancelled." unless it is a yes
Prompt(response, next) ==
    /\ responses' = Append(responses, response)
    /\ pc' = IF lower(response) # "yes" THEN "year_done" ELSE next

\* update_year.py 371-387
YearStart ==
    /\ pc = "year_start"
    /\ dry_run' = ~args.apply
    /\ IF dry_run'
       THEN pc' = "year_load" /\ UNCHANGED responses
       ELSE \E response \in Responses : Prompt(response, "year_load")
    /\ UNCHANGED <<args, music_writes, updates, backup_file, update_pos, changes_log,
                   tagger_vars, mixer_vars>>

\* update_year.py 389-450: the tracks missing a year, numbered 1..k
YearLoad ==
    /\ pc = "year_load"
    /\ \E k \in 0..MaxUpdates :
        /\ updates' = [t \in 1..k |-> t]
        /\ pc' = IF k = 0 THEN "year_done"
                 ELSE IF args.test_one THEN "year_test" ELSE "year_batch"
    /\ UNCHANGED <<args, music_writes, dry_run, responses, backup_file, update_pos,
                   changes_log, tagger_vars, mixer_vars>>

\* update_year.py 453-466 (test mode) and 490-502 (batch mode)
YearConfirm ==
    /\ pc \in {"year_test", "year_batch"}
    /\ IF ~dry_run
       THEN \E response \in Responses : Prompt(response, "year_backup")
       ELSE pc' = "year_backup" /\ UNCHANGED responses
    /\ UNCHANGED <<args, music_writes, dry_run, updates, backup_file, update_pos,
                   changes_log, tagger_vars, mixer_vars>>

\* the updates the run processes: the first one in test mode
Worklist == IF args.test_one THEN SubSeq(updates, 1, 1) ELSE updates

\* update_year.py 468-469, 505-506 and 294-314
YearBackup ==
    /\ pc = "year_backup"
    /\ backup_file' = [dry_run |-> dry_run, tracks |-> Worklist]
    /\ update_pos' = 0
    /\ pc' = "year_update"
    /\ UNCHANGED <<args, music_writes, dry_run, responses, updates, changes_log,
                   tagger_vars, mixer_vars>>

\* a variant without the dry-run guard
SetTrackYearAlways(dry, outcome) ==
    <<outcome \notin {"set_failed"}, outcome \notin {"set_failed"}>>

\* update_year.py 147-199: (returned value, whether the "set year" script
\* was executed and set the year)
set_track_year(dry, outcome) ==
    IF dry THEN <<TRUE, FALSE>>
    ELSE <<outcome \notin {"set_failed"}, outcome \notin {"set_failed"}>>

\* update_year.py 201-292: (result['success'], whether the year was written)
update_track_year(dry, outcome) ==
    IF outcome = "not_found" THEN <<FALSE, FALSE>>
    ELSE IF outcome = "already" THEN <<TRUE, FALSE>>
    ELSE LET set == set_track_year(dry, outcome)
         IN  IF ~set[1] THEN <<FALSE, set[2]>>
             ELSE IF dry THEN <<TRUE, set[2]>>
             ELSE IF outcome \in {"unreadable", "mismatch"} THEN <<FALSE, set[2]>>
             ELSE <<TRUE, set[2]>>

\* update_year.py 471-477 (test mode) and 512-528 (one turn of the batch loop)
YearUpdate ==
    /\ pc = "year_update"
    /\ update_pos < Len(Worklist)
    /\ \E outcome \in UpdateOutcomes :
        LET track == Worklist[update_pos + 1]
            result == update_track_year(dry_run, outcome)
        IN  /\ music_writes' = IF result[2]
                               THEN Append(music_writes, <<"set year", track, 0>>)
                               ELSE music_writes
            /\ changes_log' = IF args.test_one THEN changes_log
                              ELSE Append(changes_log, result[1])
    /\ update_pos' = update_pos + 1
    /\ UNCHANGED <<args, dry_run, responses, updates, backup_file, pc, tagger_vars,
                   mixer_vars>>

\* update_year.py 479-488 (test mode) and 530-539
YearFinish ==
    /\ pc = "year_update"
    /\ ~(update_pos < Len(Worklist))
    /\ pc' = "year_done"
    /\ UNCHANGED <<tool_vars, mixer_vars>>

NextYear == YearStart \/ YearLoad \/ YearConfirm \/ YearBackup \/ YearUpdate \/ YearFinish

SpecYear == InitYear /\ [][NextYear]_vars

(***************************************************************************)
(* Properties.                                                             *)
(***************************************************************************)
\* _compute_total_cost(...)[0], the total state cost recomputed from scratch
FullCost(ord, shf) == _compute_total_cost(ord, shf, bpms, base_key_ids)[1]

IsPermutation(ord) ==
    /\ DOMAIN ord = 0..(n - 1)
    /\ \A i \in 0..(n - 1) : Cardinality({j \in DOMAIN ord : ord[j] = i}) = 1

ShiftsInRange(shf) ==
    /\ DOMAIN shf = 0..(n - 1)
    /\ \A i \in 0..(n - 1) : shf[i] \in {-1, 0, 1}

Completed == Len(attempt_results)

IdenticalPair == List(<< <<120, Key(8, "A")>>, <<120, Key(8, "A")>> >>)

\* C1 (delta consistency): after every inner-loop step, in normal and in
\* escape mode, the candidate cost obtained from the delta path equals the
\* full recomputation of the working (order, shifts); and the cost the next
\* step starts from is the full cost of the state it starts from: the
\* working state and current_cost in escape mode, the best state and
\* best_cost (to which lines 437-439 reset the working state) otherwise.
C1_DeltaConsistency ==
    pc = "anneal" =>
        /\ master_iter > 0 => candidate_cost = FullCost(order, shifts)
        /\ in_escape_mode => current_cost = FullCost(order, shifts)
        /\ ~in_escape_mode => best_cost = FullCost(best_order, best_shifts)

\* an escape chain of three tracks at its second step or later, whose
\* candidate differs from the best cost and whose shifts were re-optimized
C1_Witness ==
    /\ pc = "anneal" /\ n = 3
    /\ in_escape_mode /\ escape_counter >= 1
    /\ candidate_cost # best_cost
    /\ shifts # best_shifts /\ order # best_order

\* C2: at every iteration boundary of an attempt and in what the attempt
\* returns, best_cost is the total cost recomputed from scratch for
\* (best_order, best_shifts).
C2_BestCostIsRecomputed ==
    /\ pc = "anneal" => best_cost = FullCost(best_order, best_shifts)
    /\ \A k \in DOMAIN attempt_results :
        attempt_results[k].best_cost =
            FullCost(attempt_results[k].best_order, attempt_results[k].best_shifts)

\* the first step of an attempt on three tracks has just improved the best
C2_Witness ==
    /\ pc = "anneal" /\ n = 3 /\ master_iter = 1
    /\ ~in_escape_mode
    /\ candidate_cost = best_cost /\ order = best_order /\ shifts = best_shifts

\* C3: the working order and best_order are permutations of 0..n-1 after
\* any sequence of steps, and so is every returned and every global best order.
C3_OrdersArePermutations ==
    /\ pc = "anneal" => IsPermutation(order) /\ IsPermutation(best_order)
    /\ \A k \in DOMAIN attempt_results : IsPermutation(attempt_results[k].best_order)
    /\ Completed >= 1 => IsPermutation(global_overall_best_order)

\* three tracks, several swaps applied to an escape chain that left the best order
C3_Witness ==
    /\ pc = "anneal" /\ n = 3 /\ master_iter >= 3
    /\ in_escape_mode /\ escape_counter >= 2
    /\ order # best_order

\* C4: shifts[i] and best_shifts[i] are in {-1, 0, +1} for every track after
\* any sequence of steps and in every returned and global best result.
C4_ShiftsInRange ==
    /\ pc = "anneal" => ShiftsInRange(shifts) /\ ShiftsInRange(best_shifts)
    /\ \A k \in DOMAIN attempt_results : ShiftsInRange(attempt_results[k].best_shifts)
    /\ Completed >= 1 => ShiftsInRange(global_overall_best_shifts)

\* a step on three tracks re-optimized the shifts away from the best ones,
\* leaving both a +1 and a -1
C4_Witness ==
    /\ pc = "anneal" /\ n = 3 /\ master_iter >= 1
    /\ shifts # best_shifts
    /\ \E i, j \in 0..(n - 1) : shifts[i] = 1 /\ shifts[j] = -1

\* C5: after each completed attempt the global best cost is the minimum of
\* the overall costs of the attempts completed so far, and the global best
\* order and shifts are those of an attempt that achieved it (so the running
\* best never increases and no attempt's overall cost is below it).
C5_GlobalBestIsMinimum ==
    Completed >= 1 =>
        /\ global_overall_best_cost =
               MinOf({attempt_results[k].overall : k \in DOMAIN attempt_results})
        /\ \E k \in DOMAIN attempt_results :
               /\ attempt_results[k].overall = global_overall_best_cost
               /\ attempt_results[k].best_order = global_overall_best_order
               /\ attempt_results[k].best_shifts = global_overall_best_shifts

\* two attempts completed, the second worse than the first and not taken
C5_Witness ==
    /\ Completed = 2
    /\ attempt_results[2].overall > attempt_results[1].overall
    /\ global_overall_best_shifts # attempt_results[2].best_shifts

\* C6: when the head of the outer loop decides, it ends the loop exactly when
\* at least one attempt has completed and the elapsed time has reached the
\* time limit; otherwise it launches an attempt.  So the first attempt is
\* launched even with the budget already spent, no attempt is launched at or
\* past the limit once one has completed, and one is launched before the limit.
C6_OuterLoopDecision ==
    [][(pc = "outer" /\ pc' # "outer") =>
          /\ pc' \in {"done", "anneal"}
          /\ (pc' = "done") <=> (Completed >= 1 /\ now' >= time_limit_seconds)]_vars

\* the first attempt runs although the budget had elapsed before it started
C6_Witness ==
    /\ pc = "anneal" /\ attempt = 1 /\ Completed = 0
    /\ now >= time_limit_seconds

\* C7: when the outer loop has finished, the value of attempt (printed as the
\* number of attempts) is the number of attempts that completed.
C7_ReportedAttemptsAreCompleted ==
    pc = "done" => attempt = Completed

\* C8: for every setting of SHIFT_WEIGHT, the overall cost recorded for an
\* attempt is H + TEMPO_COST_WEIGHT*T + SHIFT_WEIGHT*S for the breakdown
\* (H, T, S) of the same state, and is the best_cost the annealer returned.
C8_OverallMatchesBreakdown ==
    \A k \in DOMAIN attempt_results :
        LET r == attempt_results[k]
        IN  /\ r.overall = r.hts[1] + TEMPO_COST_WEIGHT * r.hts[2] + shift_weight * r.hts[3]
            /\ r.overall = r.best_cost

\* C9 (determinism): the result does not depend on how many attempts the wall
\* clock allows.  The random draws of an attempt do not depend on the clock,
\* so two runs with the same random stream of which one stops after k
\* attempts and the other goes on are the same behaviour up to the k-th
\* return: their results are identical only if the global best no longer
\* changes once an attempt has completed.
C9_ResultIndependentOfAttemptCount ==
    [][Completed >= 1 =>
          UNCHANGED <<global_overall_best_order, global_overall_best_shifts,
                      global_overall_best_cost>>]_vars

\* C10: on two tracks of equal BPM and key, every run returns best cost 0
\* with shifts [0, 0], whatever the draws and the number of attempts.
C10_IdenticalTracksCostZero ==
    (mix_tracks_data = IdenticalPair /\ Completed >= 1) =>
        /\ global_overall_best_cost = 0
        /\ \A i \in 0..(n - 1) : global_overall_best_shifts[i] = 0

TempoBreakPair ==
    /\ n = 2
    /\ 2 * abs(bpms[0] - bpms[1]) > TEMPO_BREAK_FACTOR * TEMPO_THRESHOLD

\* C11 (scenario "tempo break"): on two tracks whose BPM difference exceeds
\* TEMPO_BREAK_FACTOR*TEMPO_THRESHOLD, every attempt returns both shifts 0
\* and best cost TEMPO_COST_WEIGHT*TEMPO_PENALTY*TEMPO_BREAK_FACTOR.
C11_TempoBreakCostThirty ==
    TempoBreakPair =>
        \A k \in DOMAIN attempt_results :
            /\ attempt_results[k].best_cost =
                   TEMPO_COST_WEIGHT * TEMPO_PENALTY * TEMPO_BREAK_FACTOR
            /\ \A i \in 0..(n - 1) : attempt_results[k].best_shifts[i] = 0

\* C13: a pool of fewer than two tracks never enters an annealing attempt
\* (it is rejected before), and an attempt that has been entered never ends
\* with an exception raised by a step of its loop.
C13_SmallPoolsRejected ==
    /\ pc = "anneal" => n >= 2
    /\ pc # "raised"

\* the minutes the command line asks for
ExpectedMinutes ==
    IF argv_minutes = None THEN OPTIMIZER_TIME_LIMIT_MINUTES ELSE float(argv_minutes)

\* C12: the start-up gets to compute the time budget (it does not fail on
\* the name of the time limit), and the budget in force when the outer loop
\* starts is 5 minutes without a first positional argument and that
\* argument, in minutes, with one.
C12_CliTimeLimitInForce ==
    /\ exception # NameError
    /\ pc = "outer" => time_limit_seconds = ExpectedMinutes * 60

\* the Comments field starts with Camelot key: its first run of non-blank
\* characters is, leading zeros apart, one of the 24 keys
StartsWithKey(comments, key) ==
    /\ comments # None
    /\ \E i, j \in 1..Len(comments) :
        /\ i <= j
        /\ \A k \in 1..(i - 1) : comments[k] = " "
        /\ \A k \in i..j : comments[k] # " "
        /\ j = Len(comments) \/ comments[j + 1] = " "
        /\ \E z \in 0..(j - i) :
            /\ \A k \in i..(i + z - 1) : comments[k] = "0"
            /\ SubSeq(comments, i + z, j) = key
            /\ key[1] # "0"

RECURSIVE Accepted(_)
\* the tracks of the rows with a non-zero BPM and a Comments field that
\* starts with a Camelot key, in the order of the rows
Accepted(rows) ==
    IF Len(rows) = 0 THEN <<>>
    ELSE LET row == rows[Len(rows)]
             keys == {key \in CamelotKeySet : StartsWithKey(row[2], key)}
         IN  Accepted(SubSeq(rows, 1, Len(rows) - 1))
             \o (IF row[1] # 0 /\ keys # {}
                 THEN << <<row[1], CHOOSE key \in keys : TRUE>> >> ELSE <<>>)

\* C14: the loading loop never fails on a row: each row with BPM 0 or with
\* a Comments field that does not start with a Camelot key is skipped and
\* the loop goes on, so that the tracks collected are exactly those of the
\* other rows consumed so far, each with a non-zero BPM and a key in 1A..12B.
C14_IngestionFilters ==
    /\ exception # IndexError
    /\ pc \in {"rows", "start", "outer"} =>
        /\ mix_tracks_data = List(Accepted(SubSeq(mix_input_df, 1, row_pos)))
        /\ \A i \in DOMAIN mix_tracks_data :
            mix_tracks_data[i][1] # 0 /\ mix_tracks_data[i][2] \in CamelotKeySet

\* the circular distance of two key numbers, 12 and 1 being adjacent
CircularDistance(n1, n2) ==
    CHOOSE d \in 0..6 : \E k \in {-1, 0, 1} : n1 - n2 + 12 * k \in {d, -d}

Returned(fn) == pc = "returned" /\ call.fn = fn

\* C15: for every pair of the 24 Camelot keys harmonic_cost_from_keys
\* returns the table value: 0 for the same number and mode, 0.5 for the same
\* number and different modes, 0.5 for circular distance 1 in the same mode,
\* 5 for distance 1 across modes, 5 for distance 2 or more.
C15_HarmonicCostTable ==
    Returned("harmonic_cost_from_keys") =>
        LET n1 == call.args[1][1]
            m1 == call.args[1][2]
            n2 == call.args[2][1]
            m2 == call.args[2][2]
            d == CircularDistance(n1, n2)
        IN  call.ret = IF d = 0 /\ m1 = m2 THEN 0
                       ELSE IF d = 0 THEN Unit \div 2
                       ELSE IF d = 1 /\ m1 = m2 THEN Unit \div 2
                       ELSE IF d = 1 THEN 5 * Unit
                       ELSE 5 * Unit

\* 12A against 1A: adjacent around the wheel, cost 0.5
C15_Witness ==
    /\ Returned("harmonic_cost_from_keys")
    /\ call.args = << <<12, "A">>, <<1, "A">> >>
    /\ call.ret = Unit \div 2

\* the key with id kid shifted by s semitones, by the string functions
EffectiveKey(kid, s) == shift_camelot_key(camelot_keys[kid + 1], s)

\* C16: for every pair of tracks and shifts _fast_edge_cost returns the edge
\* cost: TEMPO_COST_WEIGHT*TEMPO_PENALTY*TEMPO_BREAK_FACTOR, whatever the
\* keys and shifts, when the BPM difference exceeds TEMPO_BREAK_FACTOR *
\* TEMPO_THRESHOLD; otherwise direct, plus 2*NON_HARMONIC_COST iff direct =
\* NON_HARMONIC_COST and indirect >= NON_HARMONIC_COST, plus
\* TEMPO_COST_WEIGHT*TEMPO_PENALTY iff the difference exceeds
\* TEMPO_THRESHOLD, direct and indirect being those of the two shifted keys.
C16_FastEdgeCostIsEdgeCost ==
    Returned("_fast_edge_cost") =>
        LET diff == 2 * abs(call.args[1][1] - call.args[1][2])
            key1 == EffectiveKey(call.args[2][1], call.args[3][1])
            key2 == EffectiveKey(call.args[2][2], call.args[3][2])
            direct == transition_harmonic_costs[key1][key2][1]
            indirect == transition_harmonic_costs[key1][key2][2]
        IN  call.ret =
                IF diff > TEMPO_BREAK_FACTOR * TEMPO_THRESHOLD
                THEN TEMPO_COST_WEIGHT * TEMPO_PENALTY * TEMPO_BREAK_FACTOR
                ELSE direct
                     + (IF direct = NON_HARMONIC_COST /\ indirect >= NON_HARMONIC_COST
                        THEN 2 * NON_HARMONIC_COST ELSE 0)
                     + TEMPO_COST_WEIGHT * (IF diff > TEMPO_THRESHOLD THEN TEMPO_PENALTY ELSE 0)

\* two shifted tracks 5 BPM apart with no harmonic path: tripled harmonic
\* cost and the tempo penalty
C16_Witness ==
    /\ Returned("_fast_edge_cost")
    /\ call.args[1] = <<120, 125>>
    /\ call.args[3] = <<1, -1>>
    /\ call.ret = 3 * NON_HARMONIC_COST + TEMPO_COST_WEIGHT * TEMPO_PENALTY

\* C17 (shift algebra): for each of the 24 keys and each shift in {-1, 0, +1}
\* shift_camelot_key does not raise and returns one of the 24 keys, of the
\* same mode letter; a shift of 0 returns the key, and shifting the result
\* of a shift back by the opposite amount returns the key.  Every entry of
\* _shift_table is a key id in 0..23, the entry of the key the string
\* function returns, and no two keys have the same entry for the same shift.
C17_ShiftAlgebra ==
    /\ Returned("shift_camelot_key") =>
        LET key == Key(call.args[1][1], call.args[1][2])
            s == call.args[2]
        IN  /\ call.ret \in CamelotKeySet
            /\ call.ret[Len(call.ret)] = call.args[1][2]
            /\ s = 0 => call.ret = key
            /\ shift_camelot_key(call.ret, -s) = key
    /\ Returned("_shift_table") =>
        LET kid == call.args[1]
            s == call.args[2]
        IN  /\ call.ret \in 0..(NUM_KEYS - 1)
            /\ camelot_keys[call.ret + 1] = shift_camelot_key(camelot_keys[kid + 1], s)
            /\ \A other \in 0..(NUM_KEYS - 1) :
                  _shift_table[other * 3 + (s + 1)] = call.ret => other = kid

\* 1B (pitch 11) shifted up wraps to pitch 0: 8B, a key of the same mode
C17_Witness ==
    /\ Returned("shift_camelot_key")
    /\ call.args = << <<1, "B">>, 1 >>
    /\ call.ret = Key(8, "B")

\* C18: in the precomputed tables, dict and flat arrays alike, the indirect
\* cost of (k1, k2) is the minimum over the 24 keys k3 of direct[k1, k3] +
\* direct[k3, k2], and is at most the direct cost of (k1, k2).
C18_IndirectAtMostDirect ==
    Returned("transition_harmonic_costs") =>
        LET key1 == Key(call.args[1][1], call.args[1][2])
            key2 == Key(call.args[2][1], call.args[2][2])
            direct == call.ret[1][1]
            indirect == call.ret[1][2]
            via(k3) == transition_harmonic_costs[key1][k3][1]
                       + transition_harmonic_costs[k3][key2][1]
        IN  /\ call.ret[2] = call.ret[1]
            /\ \A k3 \in CamelotKeySet : indirect <= via(k3)
            /\ \E k3 \in CamelotKeySet : indirect = via(k3)
            /\ indirect <= direct

\* 1A to 3A: no direct transition (5), but 1.0 through 2A
C18_Witness ==
    /\ Returned("transition_harmonic_costs")
    /\ call.args = << <<1, "A">>, <<3, "A">> >>
    /\ call.ret[1] = <<NON_HARMONIC_COST, 2 * KEY_DIFF_ONE_COST>>

\* C19: in a run with --dry-run no step, whatever the key pressed, modifies
\* the Music library or the groups file; so no group acquires the status
\* 'fixed' or 'ignored' on disk.
C19_DryRunWritesNothing ==
    [][args.dry_run => /\ music_writes' = music_writes
                       /\ groups_file' = groups_file]_vars

\* C20: update_year executes a "set year" script only in a run started with
\* --apply in which the user answered yes to both confirmation prompts,
\* and only after the backup file was created; a run without --apply, with
\* or without --test-one, executes none.
C20_WritesOnlyWhenApplied ==
    music_writes # <<>> =>
        /\ args.apply
        /\ Len(responses) = 2
        /\ \A k \in DOMAIN responses : lower(responses[k]) = "yes"
        /\ backup_file # None
        /\ backup_file.tracks = Worklist

\* a batch run in apply mode has written the year of two tracks
C20_Witness ==
    /\ pc = "year_done"
    /\ args.apply /\ ~args.test_one
    /\ Len(music_writes) = 2
    /\ changes_log = <<TRUE, FALSE>>

\* an inner-loop step of simulated_annealing_mix that is followed by the
\* next test of "while master_iter < TOTAL_ITERATIONS"
InnerStep == pc = "anneal" /\ pc' = "anneal"

\* the first assignments of an attempt (mixer.py 407-430)
AttemptStart == pc = "outer" /\ pc' = "anneal"

\* C21 (escape-mode state machine): an attempt starts in normal mode; in an
\* inner-loop step in_escape_mode turns true only from normal mode, with a
\* candidate that is not below best_cost and a successful Metropolis draw;
\* it turns false only with a candidate strictly below best_cost or when the
\* incremented escape_counter exceeds MULTI_SWAP_FACTOR * n; in every other
\* step it keeps its value.
C21_EscapeModeStateMachine ==
    [][ /\ AttemptStart => ~in_escape_mode'
        /\ InnerStep =>
            /\ (~in_escape_mode /\ in_escape_mode') =>
                  /\ candidate_cost' >= best_cost
                  /\ escape_counter' = 0
                  /\ \E a, b \in 0..(n - 1) : a # b /\ AnnealStep(a, b, TRUE)
            /\ (in_escape_mode /\ ~in_escape_mode') =>
                  \/ candidate_cost' < best_cost
                  \/ escape_counter + 1 > MULTI_SWAP_FACTOR * n
            /\ (in_escape_mode /\ candidate_cost' >= best_cost
                  /\ escape_counter + 1 <= MULTI_SWAP_FACTOR * n) => in_escape_mode'
            /\ (~in_escape_mode /\ candidate_cost' < best_cost) => ~in_escape_mode'
      ]_vars

\* an escape of three tracks has used up its budget: the seven steps after
\* its entry were taken in escape mode, the last one ended it (counter reset
\* to 0, working cost left at the candidate above best_cost)
C21_Witness ==
    /\ pc = "anneal" /\ n = 3
    /\ ~in_escape_mode /\ escape_counter = 0
    /\ master_iter >= MULTI_SWAP_FACTOR * n + 2
    /\ candidate_cost > best_cost /\ current_cost = candidate_cost

\* C22 (bounded escape): escape_counter is 0 when escape mode is entered and
\* counts the steps taken in escape mode since; every step taken in escape
\* mode is at most the (MULTI_SWAP_FACTOR * n)-th of its escape, and a step
\* taken after the mode has ended swaps two positions of the best-known
\* order.
C22_BoundedEscape ==
    [][ InnerStep =>
            /\ in_escape_mode => escape_counter + 1 <= MULTI_SWAP_FACTOR * n
            /\ ~in_escape_mode =>
                  \E a, b \in 0..(n - 1) : a # b /\ order' = Swap(best_order, a, b)
      ]_vars

\* C23 (best snapshot): in every inner-loop step best_cost does not
\* increase; (best_order, best_shifts, best_cost) change only with a
\* candidate strictly below best_cost, and then to the working state and
\* the candidate; so a rejected Metropolis move and a non-improving escape
\* step leave them alone.  A step taken in normal mode works from the best
\* snapshot: its order is best_order with two positions swapped, its shifts
\* are best_shifts except for the two swapped tracks, and its candidate,
\* current_cost plus the deltas, is the full cost of the state it produced.
C23_BestSnapshot ==
    [][ InnerStep =>
            /\ best_cost' <= best_cost
            /\ (best_order' # best_order \/ best_shifts' # best_shifts \/ best_cost' # best_cost)
                  => candidate_cost' < best_cost
            /\ candidate_cost' < best_cost =>
                  /\ best_order' = order' /\ best_shifts' = shifts'
                  /\ best_cost' = candidate_cost'
            /\ ~in_escape_mode =>
                  /\ \E a, b \in 0..(n - 1) :
                        /\ a # b
                        /\ order' = Swap(best_order, a, b)
                        /\ \A i \in 0..(n - 1) :
                              i \notin {best_order[a], best_order[b]}
                                  => shifts'[i] = best_shifts[i]
                  /\ candidate_cost' = FullCost(order', shifts')
      ]_vars

\* a Metropolis move of three tracks was rejected: the working order is the
\* swapped one, the candidate is above best_cost and the working cost is
\* back at best_cost; the attempt goes on from the best snapshot
C23_Witness ==
    /\ pc = "anneal" /\ n = 3
    /\ 0 < master_iter /\ master_iter < TOTAL_ITERATIONS
    /\ ~in_escape_mode
    /\ order # best_order
    /\ candidate_cost > best_cost /\ current_cost = best_cost

\* the cost of the edge order[j] -> order[j+1] of the mix state (ord, shf)
EdgeCostAt(ord, shf, j) ==
    _fast_edge_cost(ord[j], ord[j + 1], shf[ord[j]], shf[ord[j + 1]], bpms, base_key_ids)

\* C24: for n >= 2 and distinct positions a, b below n,
\* _edge_positions_for_swap(a, b, n) is {a-1, a, b-1, b} intersected with
\* 0..n-2; it has at most 4 elements, at most 3 when a and b are adjacent;
\* and an edge outside it has the same cost before and after the swap of a
\* and b and the shift optimizations at a and b.
C24_EdgePositionsForSwap ==
    /\ Returned("_edge_positions_for_swap") =>
          LET a == call.args[1]
              b == call.args[2]
              len == call.args[3]
          IN  /\ call.ret = {a - 1, a, b - 1, b} \cap (0..(len - 2))
              /\ Cardinality(call.ret) <= 4
              /\ abs(a - b) = 1 => Cardinality(call.ret) <= 3
    /\ Returned("swap_and_optimize") =>
          \A j \in 0..(n - 2) :
              j \notin _edge_positions_for_swap(call.args[4], call.args[5], n)
                  => EdgeCostAt(call.ret[1], call.ret[2], j)
                        = EdgeCostAt(call.args[2], call.args[3], j)

\* positions 1 and 3 of five: the four edges 0, 1, 2, 3
C24_Witness ==
    /\ Returned("_edge_positions_for_swap")
    /\ call.args = <<1, 3, 5>>
    /\ call.ret = {0, 1, 2, 3}

\* the sum of the costs of the edges that touch position pos in (ord, shf)
\* when the track at pos has shift s
IncidentCost(ord, shf, pos, s) ==
    LET shifted == [shf EXCEPT ![ord[pos]] = s]
    IN  SumOver({pos - 1, pos} \cap (0..(Cardinality(DOMAIN ord) - 2)),
                [j \in 0..(Cardinality(DOMAIN ord) - 2) |-> EdgeCostAt(ord, shifted, j)])

\* a call of one of the two shift optimizations has returned
ShiftOptimized == Returned("_optimize_shift_fast") \/ Returned("optimize_shift_at")

\* C25: after optimize_shift_at / _optimize_shift_fast at pos, the shift of
\* the track order[pos] is in {-1, 0, +1} and no shift of {-1, 0, +1} gives
\* a smaller sum of the costs of the edges incident to pos, the neighbours'
\* shifts being what they were; a previous shift that attains the minimum is
\* retained; the shifts of all other tracks are unchanged (the functions do
\* not write order).
C25_ShiftOptimization ==
    ShiftOptimized =>
        LET ord == call.args[2]
            shf == call.args[3]
            pos == call.args[4]
            i == ord[pos]
        IN  /\ call.ret[i] \in {-1, 0, 1}
            /\ \A s \in {-1, 0, 1} :
                  IncidentCost(ord, shf, pos, call.ret[i]) <= IncidentCost(ord, shf, pos, s)
            /\ (\A s \in {-1, 0, 1} :
                  IncidentCost(ord, shf, pos, shf[i]) <= IncidentCost(ord, shf, pos, s))
                  => call.ret[i] = shf[i]
            /\ DOMAIN call.ret = DOMAIN shf
            /\ \A k \in DOMAIN shf : k # i => call.ret[k] = shf[k]

\* a track between two others keeps its shift -1 although the shift 0 costs
\* the same
C25_Witness ==
    /\ Returned("_optimize_shift_fast")
    /\ LET ord == call.args[2]
           shf == call.args[3]
           pos == call.args[4]
       IN  /\ 0 < pos /\ pos < n - 1
           /\ shf[ord[pos]] = -1
           /\ call.ret[ord[pos]] = -1
           /\ IncidentCost(ord, shf, pos, 0) = IncidentCost(ord, shf, pos, -1)

\* C26 (termination of an attempt): master_iter is 0 when an attempt
\* starts, grows by exactly one in every inner-loop step and is never reset,
\* and the loop is left only by the return that follows TOTAL_ITERATIONS
\* steps.
C26_AttemptTerminates ==
    [][ /\ AttemptStart => master_iter' = 0
        /\ InnerStep => master_iter' = master_iter + 1
        /\ (pc = "anneal" /\ pc' # "anneal") =>
              /\ pc' = "outer"
              /\ master_iter = TOTAL_ITERATIONS
      ]_vars

\* C27 (start-up order): as long as no statement has assigned
\* OPTIMIZER_TIME_LIMIT_MINUTES, the module has not gone past the argparse
\* block; the run that reads the unassigned name there has ended with
\* NameError, no playlist was read, no track was loaded and no attempt was
\* launched.
C27_StartupFailsAtArgparse ==
    minutes_binding = Unbound =>
        /\ pc \in {"argparse", "raised"}
        /\ pc = "raised" => exception = NameError
        /\ args_minutes = None
        /\ mix_input_df = Empty /\ row_pos = 0 /\ mix_tracks_data = Empty
        /\ attempt = 0 /\ attempt_results = <<>>

\* the argparse block has run on fresh module globals with a minutes argument
\* on the command line
C27_Witness ==
    /\ pc = "raised" /\ exception = NameError
    /\ minutes_binding = Unbound
    /\ argv_minutes # None
    /\ mix_tracks_data = Empty

\* C28 (shift optimization never worsens the mix): for every mix state and
\* position pos, the total cost of the state (all edge costs plus
\* SHIFT_WEIGHT * SHIFT_PENALTY per non-zero shift) after
\* _optimize_shift_fast(pos) is at most the total cost before it.
C28_ShiftOptimizationNeverWorsens ==
    Returned("_optimize_shift_fast") =>
        FullCost(call.args[2], call.ret) <= FullCost(call.args[2], call.args[3])

\* C29 (integer path and string path agree): for every pair of tracks and
\* shifts _fast_edge_cost equals transition_cost_value, and for every mix
\* state the harmonic, tempo and shift totals of _compute_total_cost equal
\* those of total_mix_cost_split_order.
C29_CostPathsAgree ==
    /\ Returned("transition_cost_value") => call.ret[1] = call.ret[2]
    /\ Returned("_compute_total_cost") =>
          /\ call.ret[1][2] = call.ret[2][1]
          /\ call.ret[1][3] = call.ret[2][2]
          /\ call.ret[1][4] = call.ret[2][3]

\* a pair below the tempo break with a tempo penalty and a tripled
\* non-harmonic transition: 15 + 3 * 5 by both paths
C29_Witness ==
    /\ Returned("transition_cost_value")
    /\ call.args[1] = <<120, 125>>
    /\ call.ret = <<3 * NON_HARMONIC_COST + TEMPO_COST_WEIGHT * TEMPO_PENALTY,
                    3 * NON_HARMONIC_COST + TEMPO_COST_WEIGHT * TEMPO_PENALTY>>

\* C30: resolve_tagger gives a group the status 'fixed' (after which no
\* later session presents it) only in a step in which every track of the
\* group was updated in Music and none was counted as an error; a group with
\* a track skipped for an ID mismatch or a failed update stays unresolved.
C30_FixedOnlyIfAllUpdated ==
    [][ \A g \in DOMAIN groups :
            (g \in DOMAIN groups' /\ groups[g].status # "fixed"
                /\ groups'[g].status = "fixed" /\ groups_file'[g].status = "fixed")
            => /\ Len(music_writes') - Len(music_writes) = groups[g].tracks
               /\ session'.errors = session.errors
      ]_vars

=============================================================================
